---- MODULE Spec2Model ----
(***************************************************************************)
(* Model of the power-spectrum tabulation of ares/physics/HaloModel.py:    *)
(* HaloModel.TabulatePS (checkpoint logs, work splitting over MPI ranks,   *)
(* merge by Allreduce) and HaloModel.generate_ps / _write_ps (output       *)
(* file).  Every MPI rank is a process with its own program counter; the   *)
(* checkpoint files and the output file live on a disk that survives from  *)
(* one run to the next.                                                    *)
(*                                                                         *)
(* Indices are 1-based here (tab_z[1..NZ]); the code's enumerate() is      *)
(* 0-based, so the code's "k % size != rank" reads "(k-1) % size # rank".  *)
(* A table row (an array over k or over R) is one integer, 0 being the     *)
(* np.zeros row; the elementwise Allreduce sum is integer addition.        *)
(***************************************************************************)
EXTENDS Integers, Sequences, FiniteSets, TLC

\* ---- bounds ----
NZ == 3          \* number of tabulated redshifts, len(self.tab_z)
MaxW == 3        \* largest MPI communicator size tried
MaxRuns == 3     \* number of successive invocations on the same disk

Ranks == 0..(MaxW - 1)
Rows == 1..NZ

\* self.tab_z: the redshift grid (the scenario grid 6, 8, 10, ...)
tab_z == [n \in Rows |-> 4 + 2 * n]

\* self.get_ps_mm(z, self.tab_k): the row of the power spectrum at z
get_ps_mm(z) == 100 + z

\* self.get_cf_mm(z)[1]: the row of the correlation function at z
get_cf_mm(z) == 200 + z

\* np.zeros((len(self.tab_z), ...))
Zeros == [n \in Rows |-> 0]

VARIABLES
    nruns,          \* invocations started so far
    size,           \* MPI.COMM_WORLD.size of the current run
    clobber,        \* argument clobber of the current run
    checkpoint,     \* argument checkpoint of the current run
    entry,          \* "generate_ps" or "TabulatePS": the method invoked
    pc,             \* per rank: position in generate_ps / TabulatePS
    ckpt,           \* per rank: the file tmp/<prefix>.<rank>.pkl
    outfile,        \* the output table file fn
    _z, _ps, _cf,   \* per rank: checkpoints loaded from the rank's file
    zdone,          \* per rank: redshifts done by somebody
    zdone_by,       \* per rank: the rank that did each entry of zdone
    my_assignments, \* per rank: redshifts this rank computes
    i_loop,         \* per rank: index i of the computing loop
    tab_ps_mm,      \* per rank: local array tab_ps_mm
    tab_cf_mm,      \* per rank: local array tab_cf_mm
    self_tab_ps_mm, \* per rank: attribute self.tab_ps_mm (<<>> = not set)
    self_tab_cf_mm, \* per rank: attribute self.tab_cf_mm (<<>> = not set)
    stale,          \* history: per rank, records of ckpt older than the run
    pre_exists,     \* history: ranks whose file existed when the run began
    computed,       \* history: per rank, redshifts computed in this run
    writers,        \* history: ranks that wrote the output file in this run
    merged,         \* history: the Allreduce of this run has completed
    fresh,          \* history: per size, tables of a run begun on no logs
    all_resume,     \* history: every run so far had checkpoint on, clobber off
    call,           \* a method applied on its own: its name and arguments
    result          \* what that call returned, raised or left behind

vars == <<nruns, size, clobber, checkpoint, entry, pc, ckpt, outfile,
          _z, _ps, _cf, zdone, zdone_by, my_assignments, i_loop,
          tab_ps_mm, tab_cf_mm, self_tab_ps_mm, self_tab_cf_mm,
          stale, pre_exists, computed, writers, merged, fresh,
          all_resume, call, result>>

\* the two variables of the specifications of single method calls
pure == <<call, result>>

\* the variables of the runs of generate_ps / TabulatePS
run_vars == <<nruns, size, clobber, checkpoint, entry, pc, ckpt, outfile,
              _z, _ps, _cf, zdone, zdone_by, my_assignments, i_loop,
              tab_ps_mm, tab_cf_mm, self_tab_ps_mm, self_tab_cf_mm,
              stale, pre_exists, computed, writers, merged, fresh, all_resume>>

locals == <<_z, _ps, _cf, zdone, zdone_by, my_assignments, i_loop,
            tab_ps_mm, tab_cf_mm, self_tab_ps_mm, self_tab_cf_mm>>

config == <<nruns, size, clobber, checkpoint, entry, pre_exists, all_resume>>

\* ---- helpers ----
Range(s) == {s[n] : n \in 1..Len(s)}

\* list.count(z)
Count(s, z) == Cardinality({n \in 1..Len(s) : s[n] = z})

\* the first element is taken whatever is looked for
Index_Head(s, z) == 1

\* list.index(z): position of the first occurrence
Index(s, z) == CHOOSE n \in 1..Len(s) : s[n] = z /\ \A m \in 1..(n - 1) : s[m] # z

Workers == 0..(size - 1)

NoFile == [exists |-> FALSE, recs |-> <<>>]

NoTable == [exists |-> FALSE, format |-> "none", closed |-> FALSE,
            ps |-> <<>>, cf |-> <<>>]

Terminal == {"idle", "done", "crashed", "ioerror", "error", "mpi_error", "raised"}

\* ---- TabulatePS: pure parts ----

\* MPI.COMM_WORLD.reduce of python lists with the default op (SUM): the
\* lists concatenated in rank order
RECURSIVE ReduceSum(_, _, _)
ReduceSum(f, r, W) == IF r >= W THEN <<>> ELSE f[r] \o ReduceSum(f, r + 1, W)

\* [rank] * len(_z)
RankTimes(r, n) == [m \in 1..n |-> r]

\* lines 836-842: redshifts that still need to be done by somebody
Assignments(zd) == SelectSeq(tab_z, LAMBDA z : z \notin Range(zd))

\* the work is not split: every rank takes every assignment
SplitWork_All(a, k, W, r) == a

\* the position is counted from 1 instead of 0
SplitWork_OffByOne(a, k, W, r) ==
    [m \in 1..Cardinality({j \in 1..Len(a) : j % W = r}) |->
        a[CHOOSE j \in 1..Len(a) :
            j % W = r /\ Cardinality({jj \in 1..j : jj % W = r}) = m]]

\* lines 844-850: split up the work among processors
RECURSIVE SplitWork(_, _, _, _)
SplitWork(a, k, W, r) ==
    IF k > Len(a) THEN <<>>
    ELSE (IF (k - 1) % W # r THEN <<>> ELSE <<a[k]>>) \o SplitWork(a, k + 1, W, r)

\* lines 860-865: the computing loop skips index n
LoopSkips(w, n) ==
    \/ (tab_z[n] \in Range(zdone[w]) /\ tab_z[n] \notin Range(_z[w]))
    \/ tab_z[n] \notin Range(my_assignments[w])

\* the loop runs over the grid from its last index down
NextIdx_Reverse(w) ==
    LET todo == {n \in Rows : ~LoopSkips(w, n) /\ tab_z[n] \notin Range(computed[w])}
    IN IF todo = {} THEN NZ + 1 ELSE CHOOSE n \in todo : \A m \in todo : n >= m

\* the next index the computing loop works on (NZ + 1: loop finished)
NextIdx(w) ==
    LET todo == {n \in i_loop[w]..NZ : ~LoopSkips(w, n)}
    IN IF todo = {} THEN NZ + 1 ELSE CHOOSE n \in todo : \A m \in todo : n <= m

\* lines 904-909: ranks recorded for z, in the order of zdone
DoneBy(w, z) ==
    LET pos == SelectSeq([n \in 1..Len(zdone[w]) |-> n], LAMBDA n : zdone[w][n] = z)
    IN [n \in 1..Len(pos) |-> zdone_by[w][pos[n]]]

\* no row is taken from the loaded checkpoints
GrabLoads_Never(w, n) == FALSE

\* every rank that loaded the redshift copies its row in
GrabLoads_NoDedupe(w, n) ==
    /\ ~(tab_z[n] \in Range(zdone[w]) /\ tab_z[n] \notin Range(_z[w]))
    /\ tab_z[n] \in Range(_z[w])

\* lines 896-921: row n is taken from the loaded checkpoints
GrabLoads(w, n) ==
    /\ ~(tab_z[n] \in Range(zdone[w]) /\ tab_z[n] \notin Range(_z[w]))
    /\ (Count(zdone[w], tab_z[n]) > 1 => w = DoneBy(w, tab_z[n])[1])
    /\ tab_z[n] \in Range(_z[w])

\* lines 926-932: Allreduce, elementwise sum over the ranks
RECURSIVE SumOver(_, _, _, _)
SumOver(t, n, r, W) == IF r >= W THEN 0 ELSE t[r][n] + SumOver(t, n, r + 1, W)

\* the rows of rank 0 alone, nothing is summed
Allreduce_RootOnly(t) == [n \in Rows |-> t[0][n]]

Allreduce(t) == [n \in Rows |-> SumOver(t, n, 0, size)]

\* ---- initial state: nothing on disk, no run yet ----
NoRun ==
    /\ nruns = 0
    /\ size = 1
    /\ clobber = FALSE
    /\ checkpoint = FALSE
    /\ entry = "TabulatePS"
    /\ pc = [r \in Ranks |-> "idle"]
    /\ ckpt = [r \in Ranks |-> NoFile]
    /\ outfile = NoTable
    /\ _z = [r \in Ranks |-> <<>>]
    /\ _ps = [r \in Ranks |-> <<>>]
    /\ _cf = [r \in Ranks |-> <<>>]
    /\ zdone = [r \in Ranks |-> <<>>]
    /\ zdone_by = [r \in Ranks |-> <<>>]
    /\ my_assignments = [r \in Ranks |-> <<>>]
    /\ i_loop = [r \in Ranks |-> 1]
    /\ tab_ps_mm = [r \in Ranks |-> Zeros]
    /\ tab_cf_mm = [r \in Ranks |-> Zeros]
    /\ self_tab_ps_mm = [r \in Ranks |-> <<>>]
    /\ self_tab_cf_mm = [r \in Ranks |-> <<>>]
    /\ stale = [r \in Ranks |-> 0]
    /\ pre_exists = {}
    /\ computed = [r \in Ranks |-> <<>>]
    /\ writers = {}
    /\ merged = FALSE
    /\ fresh = [W \in 1..MaxW |-> <<>>]
    /\ all_resume = TRUE

Init ==
    /\ NoRun
    /\ call = <<>>
    /\ result = <<>>

\* ---- actions ----

\* mpirun -np W: every rank calls generate_ps(clobber, checkpoint) or
\* TabulatePS(clobber, checkpoint) on a fresh HaloModel instance
StartRun(W, cl, ck, en) ==
    /\ nruns < MaxRuns
    /\ \A r \in Ranks : pc[r] \in Terminal
    /\ nruns' = nruns + 1
    /\ size' = W
    /\ clobber' = cl
    /\ checkpoint' = ck
    /\ entry' = en
    /\ pc' = [r \in Ranks |-> IF r >= W THEN "idle"
                              ELSE IF en = "generate_ps" THEN "gen_check"
                              ELSE "tab_read"]
    /\ _z' = [r \in Ranks |-> <<>>]
    /\ _ps' = [r \in Ranks |-> <<>>]
    /\ _cf' = [r \in Ranks |-> <<>>]
    /\ zdone' = [r \in Ranks |-> <<>>]
    /\ zdone_by' = [r \in Ranks |-> <<>>]
    /\ my_assignments' = [r \in Ranks |-> <<>>]
    /\ i_loop' = [r \in Ranks |-> 1]
    /\ tab_ps_mm' = [r \in Ranks |-> Zeros]
    /\ tab_cf_mm' = [r \in Ranks |-> Zeros]
    /\ self_tab_ps_mm' = [r \in Ranks |-> <<>>]
    /\ self_tab_cf_mm' = [r \in Ranks |-> <<>>]
    /\ stale' = [r \in Ranks |-> Len(ckpt[r].recs)]
    /\ pre_exists' = {r \in Ranks : ckpt[r].exists}
    /\ all_resume' = (all_resume /\ ck /\ ~cl)
    /\ computed' = [r \in Ranks |-> <<>>]
    /\ writers' = {}
    /\ merged' = FALSE
    /\ UNCHANGED <<pure, ckpt, outfile, fresh>>

\* the existing target file is not looked at
GenCheck_NoCheck(w) ==
    /\ pc[w] = "gen_check"
    /\ pc' = [pc EXCEPT ![w] = "tab_read"]
    /\ UNCHANGED <<pure, config, ckpt, outfile, locals, stale, computed, writers,
                   merged, fresh>>

\* generate_ps lines 970-974: the target file exists already
GenCheck(w) ==
    /\ pc[w] = "gen_check"
    /\ IF outfile.exists
       THEN IF clobber
            THEN outfile' = NoTable /\ pc' = [pc EXCEPT ![w] = "tab_read"]
            ELSE outfile' = outfile /\ pc' = [pc EXCEPT ![w] = "ioerror"]
       ELSE outfile' = outfile /\ pc' = [pc EXCEPT ![w] = "tab_read"]
    /\ UNCHANGED <<pure, config, ckpt, locals, stale, computed, writers, merged, fresh>>

\* the rank is left out of the file name: one file for all ranks
ckpt_fn_NoRank(w) == 0

\* lines 794-795: fn = 'tmp/{}.{}.pkl'.format(pref, str(rank).zfill(3)), the
\* file of rank w; files are told apart by the number in their name
ckpt_fn(w) == w

\* the file is read whatever clobber says
Loads_Clobbered(w) == checkpoint /\ ckpt[ckpt_fn(w)].exists

\* line 797 (under line 790): the rank's checkpoint file is read
Loads(w) == checkpoint /\ ckpt[ckpt_fn(w)].exists /\ ~clobber

\* line 822 (under line 790): the rank's checkpoint file is deleted
Removes(w) == checkpoint /\ ~Loads(w) /\ ckpt[ckpt_fn(w)].exists

\* TabulatePS lines 783-857 up to the computing loop: load or delete the
\* rank's checkpoint file; a rank of several that loaded something enters
\* the reduce/bcast calls, any other rank sets zdone = [] and splits the
\* work at once
TabRead(w) ==
    /\ pc[w] = "tab_read"
    /\ LET load == Loads(w)
           remove == Removes(w)
           recs == IF load THEN ckpt[ckpt_fn(w)].recs ELSE <<>>
           z_ == [n \in 1..Len(recs) |-> recs[n][1]]
       IN /\ _z' = [_z EXCEPT ![w] = z_]
          /\ _ps' = [_ps EXCEPT ![w] = [n \in 1..Len(recs) |-> recs[n][2]]]
          /\ _cf' = [_cf EXCEPT ![w] = [n \in 1..Len(recs) |-> recs[n][3]]]
          /\ ckpt' = IF remove THEN [ckpt EXCEPT ![ckpt_fn(w)] = NoFile] ELSE ckpt
          /\ stale' = IF remove THEN [stale EXCEPT ![ckpt_fn(w)] = 0] ELSE stale
          /\ IF size > 1 /\ z_ # <<>>
             THEN /\ pc' = [pc EXCEPT ![w] = "gather"]
                  /\ UNCHANGED <<zdone, zdone_by, my_assignments>>
             ELSE /\ pc' = [pc EXCEPT ![w] = "loop"]
                  /\ zdone' = [zdone EXCEPT ![w] = <<>>]
                  /\ zdone_by' = [zdone_by EXCEPT ![w] = <<>>]
                  /\ my_assignments' = [my_assignments EXCEPT
                         ![w] = SplitWork(Assignments(<<>>), 1, size, w)]
    /\ UNCHANGED <<pure, config, outfile, i_loop, tab_ps_mm, tab_cf_mm,
                   self_tab_ps_mm, self_tab_cf_mm, computed, writers, merged, fresh>>

\* TabulatePS lines 828-831 and 836-857: the reduce/bcast pairs complete
\* when every rank of the communicator has entered them; every rank then
\* holds the same zdone and zdone_by and splits the work
Gather ==
    /\ \A r \in Workers : pc[r] = "gather"
    /\ LET zd == ReduceSum(_z, 0, size)
           by == ReduceSum([r \in Ranks |-> RankTimes(r, Len(_z[r]))], 0, size)
       IN /\ zdone' = [r \in Ranks |-> IF r \in Workers THEN zd ELSE zdone[r]]
          /\ zdone_by' = [r \in Ranks |-> IF r \in Workers THEN by ELSE zdone_by[r]]
          /\ my_assignments' = [r \in Ranks |->
                 IF r \in Workers THEN SplitWork(Assignments(zd), 1, size, r)
                 ELSE my_assignments[r]]
    /\ pc' = [r \in Ranks |-> IF r \in Workers THEN "loop" ELSE pc[r]]
    /\ UNCHANGED <<pure, config, ckpt, outfile, _z, _ps, _cf, i_loop, tab_ps_mm,
                   tab_cf_mm, self_tab_ps_mm, self_tab_cf_mm, stale, computed,
                   writers, merged, fresh>>

\* TabulatePS lines 858-876: the loop reaches its next redshift and
\* computes the power spectrum
LoopPS(w) ==
    /\ pc[w] = "loop"
    /\ NextIdx(w) <= NZ
    /\ LET n == NextIdx(w)
       IN /\ i_loop' = [i_loop EXCEPT ![w] = n]
          /\ tab_ps_mm' = [tab_ps_mm EXCEPT ![w][n] = get_ps_mm(tab_z[n])]
          /\ computed' = [computed EXCEPT ![w] = Append(@, tab_z[n])]
    /\ pc' = [pc EXCEPT ![w] = "loop_cf"]
    /\ UNCHANGED <<pure, config, ckpt, outfile, _z, _ps, _cf, zdone, zdone_by,
                   my_assignments, tab_cf_mm, self_tab_ps_mm, self_tab_cf_mm,
                   stale, writers, merged, fresh>>

\* TabulatePS line 873: self.get_ps_mm(z, self.tab_k) raises at the next
\* redshift of the loop; nothing catches it, the call of the rank ends
RaisePS(w) ==
    /\ pc[w] = "loop"
    /\ NextIdx(w) <= NZ
    /\ i_loop' = [i_loop EXCEPT ![w] = NextIdx(w)]
    /\ pc' = [pc EXCEPT ![w] = "raised"]
    /\ UNCHANGED <<pure, config, ckpt, outfile, _z, _ps, _cf, zdone, zdone_by,
                   my_assignments, tab_ps_mm, tab_cf_mm, self_tab_ps_mm,
                   self_tab_cf_mm, stale, computed, writers, merged, fresh>>

\* the record of the redshift is written on the way out
RaiseCF_AfterCheckpoint(w) ==
    /\ pc[w] = "loop_cf"
    /\ pc' = [pc EXCEPT ![w] = "raised"]
    /\ LET n == i_loop[w]
           rec == <<tab_z[n], tab_ps_mm[w][n], tab_cf_mm[w][n]>>
       IN ckpt' = [ckpt EXCEPT ![ckpt_fn(w)] =
                      [exists |-> TRUE, recs |-> Append(@.recs, rec)]]
    /\ UNCHANGED <<pure, config, outfile, locals, stale, computed, writers,
                   merged, fresh>>

\* TabulatePS line 881: self.get_cf_mm(z) raises at the redshift whose
\* power spectrum was just computed
RaiseCF(w) ==
    /\ pc[w] = "loop_cf"
    /\ pc' = [pc EXCEPT ![w] = "raised"]
    /\ UNCHANGED <<pure, config, ckpt, outfile, locals, stale, computed, writers,
                   merged, fresh>>

\* the record is never appended
SkipsCheckpoint_Always == TRUE

\* the record is appended whatever checkpoint says
SkipsCheckpoint_Never == FALSE

\* lines 886-887: without checkpointing the loop goes on to the next index
SkipsCheckpoint == ~checkpoint

\* TabulatePS lines 878-887: the correlation function of the same redshift
LoopCF(w) ==
    /\ pc[w] = "loop_cf"
    /\ tab_cf_mm' = [tab_cf_mm EXCEPT ![w][i_loop[w]] = get_cf_mm(tab_z[i_loop[w]])]
    /\ IF SkipsCheckpoint
       THEN pc' = [pc EXCEPT ![w] = "loop"]
            /\ i_loop' = [i_loop EXCEPT ![w] = @ + 1]
       ELSE pc' = [pc EXCEPT ![w] = "loop_ckpt"] /\ i_loop' = i_loop
    /\ UNCHANGED <<pure, config, ckpt, outfile, _z, _ps, _cf, zdone, zdone_by,
                   my_assignments, tab_ps_mm, self_tab_ps_mm, self_tab_cf_mm,
                   stale, computed, writers, merged, fresh>>

\* TabulatePS lines 889-890: append the record to the rank's own file
LoopCkpt(w) ==
    /\ pc[w] = "loop_ckpt"
    /\ LET n == i_loop[w]
           rec == <<tab_z[n], tab_ps_mm[w][n], tab_cf_mm[w][n]>>
       IN ckpt' = [ckpt EXCEPT ![ckpt_fn(w)] =
                      [exists |-> TRUE, recs |-> Append(@.recs, rec)]]
    /\ i_loop' = [i_loop EXCEPT ![w] = @ + 1]
    /\ pc' = [pc EXCEPT ![w] = "loop"]
    /\ UNCHANGED <<pure, config, outfile, _z, _ps, _cf, zdone, zdone_by,
                   my_assignments, tab_ps_mm, tab_cf_mm, self_tab_ps_mm,
                   self_tab_cf_mm, stale, computed, writers, merged, fresh>>

\* TabulatePS lines 893-936: the loop is over; rows found in the loaded
\* checkpoints are copied in; a single rank sets its tables, several
\* ranks enter the Allreduce
Grab(w) ==
    /\ pc[w] = "loop"
    /\ NextIdx(w) > NZ
    /\ LET ps == [n \in Rows |-> IF GrabLoads(w, n)
                                 THEN _ps[w][Index(_z[w], tab_z[n])]
                                 ELSE tab_ps_mm[w][n]]
           cf == [n \in Rows |-> IF GrabLoads(w, n)
                                 THEN _cf[w][Index(_z[w], tab_z[n])]
                                 ELSE tab_cf_mm[w][n]]
       IN /\ tab_ps_mm' = [tab_ps_mm EXCEPT ![w] = ps]
          /\ tab_cf_mm' = [tab_cf_mm EXCEPT ![w] = cf]
          /\ IF size > 1
             THEN /\ pc' = [pc EXCEPT ![w] = "allreduce"]
                  /\ UNCHANGED <<self_tab_ps_mm, self_tab_cf_mm, fresh>>
             ELSE /\ pc' = [pc EXCEPT ![w] = "tab_done"]
                  /\ self_tab_ps_mm' = [self_tab_ps_mm EXCEPT ![w] = ps]
                  /\ self_tab_cf_mm' = [self_tab_cf_mm EXCEPT ![w] = cf]
                  /\ fresh' = IF pre_exists = {}
                              THEN [fresh EXCEPT ![size] = <<ps, cf>>]
                              ELSE fresh
    /\ i_loop' = [i_loop EXCEPT ![w] = NZ + 1]
    /\ UNCHANGED <<pure, config, ckpt, outfile, _z, _ps, _cf, zdone, zdone_by,
                   my_assignments, stale, computed, writers, merged>>

\* TabulatePS lines 925-932: the two Allreduce calls complete when every
\* rank of the communicator has entered them
AllreduceStep ==
    /\ size > 1
    /\ \A r \in Workers : pc[r] = "allreduce"
    /\ LET ps == Allreduce(tab_ps_mm)
           cf == Allreduce(tab_cf_mm)
       IN /\ self_tab_ps_mm' = [r \in Ranks |-> IF r \in Workers THEN ps
                                                ELSE self_tab_ps_mm[r]]
          /\ self_tab_cf_mm' = [r \in Ranks |-> IF r \in Workers THEN cf
                                                ELSE self_tab_cf_mm[r]]
          /\ fresh' = IF pre_exists = {}
                      THEN [fresh EXCEPT ![size] = <<ps, cf>>]
                      ELSE fresh
    /\ pc' = [r \in Ranks |-> IF r \in Workers THEN "tab_done" ELSE pc[r]]
    /\ merged' = TRUE
    /\ UNCHANGED <<pure, config, ckpt, outfile, _z, _ps, _cf, zdone, zdone_by,
                   my_assignments, i_loop, tab_ps_mm, tab_cf_mm, stale,
                   computed, writers>>

\* every rank goes on to write
ReturnsEarly_Never(w) == FALSE

\* generate_ps lines 979-980: ranks above 0 return without writing
ReturnsEarly(w) == w > 0

\* TabulatePS called directly returns; generate_ps lines 979-980: ranks
\* above 0 return
Return(w) ==
    /\ pc[w] = "tab_done"
    /\ entry = "TabulatePS" \/ ReturnsEarly(w)
    /\ pc' = [pc EXCEPT ![w] = "done"]
    /\ UNCHANGED <<pure, config, ckpt, outfile, locals, stale, computed, writers,
                   merged, fresh>>

\* generate_ps line 982 and _write_ps lines 984-1019, run by rank 0
WritePS(w, format) ==
    /\ pc[w] = "tab_done"
    /\ entry = "generate_ps"
    /\ ~ReturnsEarly(w)
    /\ IF outfile.exists /\ ~clobber
       THEN /\ pc' = [pc EXCEPT ![w] = "ioerror"]
            /\ UNCHANGED <<outfile, writers>>
       ELSE /\ writers' = writers \cup {w}
            /\ IF format = "hdf5"
               THEN /\ outfile' = [exists |-> TRUE, format |-> "hdf5",
                                   closed |-> TRUE,
                                   ps |-> self_tab_ps_mm[w],
                                   cf |-> self_tab_cf_mm[w]]
                    /\ pc' = [pc EXCEPT ![w] = "done"]
               ELSE \* line 1015 raises after the five dumps; f is not closed
                    /\ outfile' = [exists |-> TRUE, format |-> "pkl",
                                   closed |-> FALSE,
                                   ps |-> self_tab_ps_mm[w],
                                   cf |-> self_tab_cf_mm[w]]
                    /\ pc' = [pc EXCEPT ![w] = "error"]
    /\ UNCHANGED <<pure, config, ckpt, locals, stale, computed, merged, fresh>>

\* the process of rank w dies (killed, out of memory, node failure)
Crash(w) ==
    /\ w \in Workers
    /\ pc[w] \notin Terminal
    /\ pc' = [pc EXCEPT ![w] = "crashed"]
    /\ UNCHANGED <<pure, config, ckpt, outfile, locals, stale, computed, writers,
                   merged, fresh>>

\* ranks wait in different collectives (some in the reduce/bcast of
\* lines 828-831, the others in the Allreduce of line 927): the MPI
\* library either leaves them blocked for ever or aborts them
MPIAbort ==
    /\ \E r \in Workers : pc[r] = "gather"
    /\ \E r \in Workers : pc[r] = "allreduce"
    /\ pc' = [r \in Ranks |-> IF r \in Workers /\ pc[r] \in {"gather", "allreduce"}
                              THEN "mpi_error" ELSE pc[r]]
    /\ UNCHANGED <<pure, config, ckpt, outfile, locals, stale, computed, writers,
                   merged, fresh>>

Next ==
    \/ \E W \in 1..MaxW, cl \in BOOLEAN, ck \in BOOLEAN,
          en \in {"generate_ps", "TabulatePS"} : StartRun(W, cl, ck, en)
    \/ \E w \in Ranks : GenCheck(w)
    \/ \E w \in Ranks : TabRead(w)
    \/ Gather
    \/ \E w \in Ranks : LoopPS(w)
    \/ \E w \in Ranks : LoopCF(w)
    \/ \E w \in Ranks : RaisePS(w)
    \/ \E w \in Ranks : RaiseCF(w)
    \/ \E w \in Ranks : LoopCkpt(w)
    \/ \E w \in Ranks : Grab(w)
    \/ AllreduceStep
    \/ \E w \in Ranks : Return(w)
    \/ \E w \in Ranks, format \in {"hdf5", "pkl"} : WritePS(w, format)
    \/ \E w \in Ranks : Crash(w)
    \/ MPIAbort

Spec == Init /\ [][Next]_vars

\* ---- state the properties talk about ----

\* ranks that have split the work (past lines 836-857) and not died
AfterAssign == {"loop", "loop_cf", "loop_ckpt", "allreduce", "tab_done", "done"}

\* redshifts of the records rank r's file held when the run began
PreZSeq(r) == [n \in 1..stale[r] |-> ckpt[r].recs[n][1]]

PreZ(r) == Range(PreZSeq(r))

\* redshifts of the records rank r appended in this run
NewZSeq(r) == [n \in 1..(Len(ckpt[r].recs) - stale[r]) |-> ckpt[r].recs[stale[r] + n][1]]

\* s is a prefix of t
IsPrefix(s, t) == Len(s) <= Len(t) /\ \A n \in 1..Len(s) : s[n] = t[n]

Min(S) == CHOOSE x \in S : \A y \in S : x <= y

TablesSet(w) == self_tab_ps_mm[w] # <<>> /\ self_tab_cf_mm[w] # <<>>

\* C1: started on a disk without checkpoint logs, the run with one rank
\* and the run with three ranks end with the same tables, row by row.
C1_SameTablesW1W3 ==
    (fresh[1] # <<>> /\ fresh[3] # <<>>) =>
        \A n \in Rows : /\ fresh[1][1][n] = fresh[3][1][n]
                        /\ fresh[1][2][n] = fresh[3][2][n]

C1_Witness == fresh[1] # <<>> /\ fresh[3] # <<>> /\ fresh[3][1][NZ] # 0

\* C2: on resume (checkpoint on, clobber off) no rank computes a redshift
\* that the log of a rank of the run already held, for every size >= 1.
C2_NoRecompute ==
    (checkpoint /\ ~clobber) =>
        \A w \in Workers : \A r \in Workers :
            Range(computed[w]) \cap PreZ(r) = {}

\* C3: a resumed run ends with the tables of an uninterrupted run begun
\* on no logs, row by row.
C3_ResumeSameTables ==
    \A w \in Workers : \A W \in 1..MaxW :
        (checkpoint /\ ~clobber /\ TablesSet(w) /\ fresh[W] # <<>>) =>
            \A n \in Rows : /\ self_tab_ps_mm[w][n] = fresh[W][1][n]
                            /\ self_tab_cf_mm[w][n] = fresh[W][2][n]

C3_Witness ==
    \E w \in Workers : \E W \in 1..MaxW :
        /\ checkpoint /\ ~clobber /\ TablesSet(w) /\ fresh[W] # <<>>
        /\ size > 1
        /\ zdone[w] # <<>> /\ Cardinality(Range(zdone[w])) < NZ
        /\ computed[w] # <<>>

C5_ScatterMerge ==
    \A w \in Workers :
        (merged /\ TablesSet(w)) =>
            \A n \in Rows :
                LET z == tab_z[n]
                    contrib == {r \in Workers : tab_ps_mm[r][n] # 0}
                    contribcf == {r \in Workers : tab_cf_mm[r][n] # 0}
                    holders == {r \in Workers : z \in Range(_z[r])}
                IN /\ Cardinality(contrib) = 1
                   /\ contribcf = contrib
                   /\ \A r \in contrib :
                        /\ self_tab_ps_mm[w][n] = tab_ps_mm[r][n]
                        /\ self_tab_cf_mm[w][n] = tab_cf_mm[r][n]
                        /\ \/ z \in Range(computed[r])
                           \/ /\ z \in Range(_z[r])
                              /\ tab_ps_mm[r][n] = _ps[r][Index(_z[r], z)]
                              /\ tab_cf_mm[r][n] = _cf[r][Index(_z[r], z)]
                   /\ holders # {} => contrib = {Min(holders)}

C5_Witness ==
    /\ merged
    /\ \A w \in Workers : TablesSet(w)
    /\ \E n \in Rows : \E r1 \in Workers : \E r2 \in Workers :
          /\ r1 # r2
          /\ tab_z[n] \in Range(_z[r1])
          /\ tab_z[n] \in Range(_z[r2])
    /\ \E r \in Workers : computed[r] # <<>>

\* C6: with several ranks, every rank that has passed the gather holds as
\* zdone the redshifts found on disk by all the ranks of the run, and as
\* zdone_by the ranks that found them, whichever ranks found records.
C6_AllGather ==
    (size > 1 /\ checkpoint /\ ~clobber) =>
        \A w \in Workers :
            pc[w] \in AfterAssign =>
                /\ zdone[w] = ReduceSum(
                       [r \in Ranks |-> PreZSeq(r)], 0, size)
                /\ zdone_by[w] = ReduceSum(
                       [r \in Ranks |-> RankTimes(r, stale[r])], 0, size)

\* C7: the output file is written by rank 0 only, and with several ranks
\* only once the Allreduce has completed; a generate_ps run in which all
\* ranks returned has been written by rank 0.
C7_LeaderWritesAfterMerge ==
    /\ writers \subseteq {0}
    /\ (writers # {} /\ size > 1) => (merged /\ \A r \in Workers : TablesSet(r))
    /\ (entry = "generate_ps" /\ \A r \in Workers : pc[r] = "done") => writers = {0}

C7_Witness ==
    /\ size = 3
    /\ writers = {0}
    /\ outfile.exists
    /\ \A r \in Workers : pc[r] = "done"

\* C8: with checkpointing, at every point of a rank's computing loop (so
\* wherever it crashes) the records it has appended are the redshifts it
\* has computed, in order, but for at most the last one, which is still
\* in progress and has no record.
C8_LosesAtMostOne ==
    checkpoint =>
        \A w \in Workers :
            /\ IsPrefix(NewZSeq(w), computed[w])
            /\ Len(computed[w]) <= Len(NewZSeq(w)) + 1
            /\ Len(computed[w]) = Len(NewZSeq(w)) + 1 =>
                  computed[w][Len(computed[w])] \notin Range(NewZSeq(w))

C8_Witness ==
    \E w \in Workers :
        /\ checkpoint
        /\ pc[w] = "crashed"
        /\ Len(NewZSeq(w)) >= 1
        /\ Len(computed[w]) = Len(NewZSeq(w)) + 1

\* C9: with checkpoint and clobber, a rank whose file existed has deleted
\* it before it computes its first redshift; nothing of the file is
\* loaded, enters zdone or a row of the tables.
C9_ClobberDeletesFirst ==
    (checkpoint /\ clobber) =>
        \A w \in Workers \cap pre_exists :
            /\ computed[w] # <<>> => stale[w] = 0
            /\ _z[w] = <<>> /\ zdone[w] = <<>>
            /\ TablesSet(w) =>
                  \A n \in Rows : \E r \in Workers : tab_z[n] \in Range(computed[r])

C9_Witness ==
    \E w \in Workers \cap pre_exists :
        /\ checkpoint /\ clobber
        /\ TablesSet(w)
        /\ stale[w] = 0

\* C10: with checkpoint on (and clobber off) a redshift recorded in the
\* log of any rank, whatever the size of the run that wrote it, is in
\* my_assignments of no rank.
C10_LoggedNotAssigned ==
    (checkpoint /\ ~clobber) =>
        \A w \in Workers :
            pc[w] \in AfterAssign =>
                \A r \in Ranks : Range(my_assignments[w]) \cap PreZ(r) = {}

\* C11: within a run, a step that appends a record to the file named by
\* rank r is a step of rank r itself, leaving its append for its loop, and
\* changes no other file and no other rank: every rank appends to its own
\* file only, and no two ranks append to the same file.
C11_OwnFileOnly ==
    [][\A r \in Ranks :
          Len(ckpt'[r].recs) > Len(ckpt[r].recs) =>
              /\ r \in Workers
              /\ pc[r] = "loop_ckpt" /\ pc'[r] = "loop"
              /\ ckpt'[r].recs = Append(ckpt[r].recs,
                     <<tab_z[i_loop[r]], tab_ps_mm[r][i_loop[r]],
                       tab_cf_mm[r][i_loop[r]]>>)
              /\ \A q \in Ranks \ {r} : ckpt'[q] = ckpt[q] /\ pc'[q] = pc[q]]_vars

C11_Witness ==
    /\ size = MaxW
    /\ \A r \in Workers : NewZSeq(r) # <<>>
    /\ \A r \in Workers : pc[r] = "done"

\* C12: the records a rank appends in a run are in strictly increasing
\* order of the index of their redshift in the grid tab_z.
C12_AppendsInGridOrder ==
    \A r \in Ranks :
        \A a \in 1..Len(NewZSeq(r)) : \A b \in 1..Len(NewZSeq(r)) :
            a < b => Index(tab_z, NewZSeq(r)[a]) < Index(tab_z, NewZSeq(r)[b])

C12_Witness ==
    \E w \in Workers :
        /\ size > 1
        /\ Len(NewZSeq(w)) >= 2
        /\ \E v \in Workers \ {w} : NewZSeq(v) # <<>>

\* C13: once a rank's tables are set, row n of tab_ps_mm and of tab_cf_mm
\* is the result for tab_z[n], whichever rank computed or loaded the row
\* and in whatever order the records stand in the logs.
C13_RowIsItsRedshift ==
    \A w \in Workers :
        TablesSet(w) =>
            \A n \in Rows : /\ self_tab_ps_mm[w][n] = get_ps_mm(tab_z[n])
                            /\ self_tab_cf_mm[w][n] = get_cf_mm(tab_z[n])

C13_Witness ==
    \E w \in Workers :
        /\ TablesSet(w)
        /\ \E a \in 1..Len(_z[w]) : \E b \in 1..Len(_z[w]) :
              a < b /\ _z[w][a] > _z[w][b]
        /\ \E n \in Rows : GrabLoads(w, n) /\ Index(_z[w], tab_z[n]) # n

\* C14: after runs that all had checkpoint on and clobber off, whatever
\* their sizes, no log holds two records of the same redshift, and in a
\* run no redshift is computed twice or by two ranks.
C14_OneRecordPerRedshift ==
    all_resume =>
        /\ \A r \in Ranks :
              \A a \in 1..Len(ckpt[r].recs) : \A b \in 1..Len(ckpt[r].recs) :
                  a # b => ckpt[r].recs[a][1] # ckpt[r].recs[b][1]
        /\ \A w \in Workers : \A n \in Rows :
              /\ Count(computed[w], tab_z[n]) <= 1
              /\ \A v \in Workers \ {w} :
                    ~(tab_z[n] \in Range(computed[w]) /\ tab_z[n] \in Range(computed[v]))

\* C15: in a generate_ps run with clobber off whose target file exists, no
\* step changes the target file or a checkpoint log, no rank computes a
\* redshift, and every rank ends in the I/O error of the existence check.
C15_ExistingTargetFails ==
    [][(/\ entry = "generate_ps" /\ ~clobber
        /\ outfile.exists /\ writers = {}
        /\ nruns' = nruns) =>
           /\ outfile' = outfile
           /\ ckpt' = ckpt
           /\ \A w \in Workers :
                 /\ computed'[w] = <<>>
                 /\ pc'[w] \in {"gen_check", "ioerror", "crashed"}]_vars

C15_Witness ==
    /\ entry = "generate_ps" /\ ~clobber
    /\ outfile.exists /\ writers = {}
    /\ size > 1
    /\ \A w \in Workers : pc[w] = "ioerror"
    /\ \E r \in Ranks : ckpt[r].exists

\* C26: a rank whose power spectrum or correlation function raised at a
\* redshift has appended no record for that redshift, has computed no
\* later redshift, and has not set its tables; the output file has not
\* been written in the run.
C26_ErrorAbortsRun ==
    \A w \in Workers :
        pc[w] = "raised" =>
            /\ tab_z[i_loop[w]] \notin Range(NewZSeq(w))
            /\ \A n \in Rows : n > i_loop[w] =>
                  /\ tab_z[n] \notin Range(computed[w])
                  /\ tab_z[n] \notin Range(NewZSeq(w))
            /\ ~TablesSet(w)
            /\ writers = {}

C26_Witness ==
    /\ entry = "generate_ps" /\ checkpoint /\ size > 1
    /\ \E w \in Workers :
          /\ pc[w] = "raised" /\ i_loop[w] < NZ
          /\ tab_z[i_loop[w]] \in Range(computed[w])
          /\ \E n \in Rows : n > i_loop[w] /\ tab_z[n] \in Range(my_assignments[w])
    /\ \E r \in Workers : pc[r] = "allreduce"

\* a rank waits in a collective operation that the other ranks of the
\* run will not enter: each of them has ended or waits in another one
Stuck ==
    /\ \A q \in Workers : pc[q] \in {"gather", "allreduce"} \cup Terminal
    /\ \E r \in Workers :
          \/ pc[r] = "gather" /\ \E q \in Workers : pc[q] # "gather"
          \/ pc[r] = "allreduce" /\ \E q \in Workers : pc[q] # "allreduce"

\* C29: with several ranks none of which failed, whichever ranks
\* found checkpoint records, no rank waits in a collective operation
\* that the others never enter, and none is aborted for it.
C29_CollectivesMatch ==
    (/\ size > 1
     /\ \A r \in Workers : pc[r] \notin {"crashed", "raised", "ioerror", "error"}) =>
        /\ ~Stuck
        /\ \A r \in Workers : pc[r] # "mpi_error"

\* C30: in a run with checkpoint off, every checkpoint file is as it was
\* when the run began and no rank has loaded a record, whatever clobber
\* is; once a rank has its tables, every redshift of the grid has been
\* computed in the run.
C30_CheckpointOffLeavesFiles ==
    ~checkpoint =>
        /\ \A r \in Ranks : /\ ckpt[r].exists <=> r \in pre_exists
                            /\ Len(ckpt[r].recs) = stale[r]
        /\ \A w \in Workers : _z[w] = <<>> /\ zdone[w] = <<>>
        /\ \A w \in Workers :
              TablesSet(w) =>
                  \A n \in Rows : \E r \in Workers : tab_z[n] \in Range(computed[r])

C30_Witness ==
    /\ ~checkpoint /\ clobber /\ size > 1
    /\ \E r \in Workers : r \in pre_exists
    /\ \E r \in Ranks \ Workers : r \in pre_exists
    /\ \A w \in Workers : pc[w] = "done" /\ TablesSet(w)

\* ---- table names: tab_prefix_ps, tab_prefix_ps_check ----
\* Numbers of the parameter file are fixed-point, in thousandths (5500 is
\* 5.5); names are strings, built and searched as python builds and
\* searches them.

\* python's Exception classes, as returned values
IsError(x) == x \in {"AssertionError", "NotImplementedError"}

\* '%i' % x: the integer part, truncated towards zero
FmtI(x) == IF x >= 0 THEN ToString(x \div 1000)
           ELSE IF (0 - x) \div 1000 = 0 THEN "0"
           ELSE "-" \o ToString((0 - x) \div 1000)

\* '%.1f' % x: one decimal, rounded
Fmt1f(x) ==
    LET a == IF x >= 0 THEN x ELSE 0 - x
        r == (a + 50) \div 100
    IN (IF x < 0 THEN "-" ELSE "") \o ToString(r \div 10) \o "." \o ToString(r % 10)

\* '%.3f' % x: three decimals
Fmt3f(x) ==
    LET a == IF x >= 0 THEN x ELSE 0 - x
        f == a % 1000
    IN (IF x < 0 THEN "-" ELSE "") \o ToString(a \div 1000) \o "."
       \o (IF f < 10 THEN "00" ELSE IF f < 100 THEN "0" ELSE "") \o ToString(f)

\* str.find(sub): 0-based position of the first occurrence, -1 if none
Find(str, sub) ==
    LET at == {i \in 1..(Len(str) - Len(sub) + 1) :
                  SubSeq(str, i, i + Len(sub) - 1) = sub}
    IN IF at = {} THEN 0 - 1 ELSE Min(at) - 1

\* str[lo:hi] with python's reading of negative positions
PySlice(str, lo, hi) ==
    LET n == Len(str)
        a == IF lo < 0 THEN (IF n + lo < 0 THEN 0 ELSE n + lo) ELSE lo
        b == IF hi < 0 THEN (IF n + hi < 0 THEN 0 ELSE n + hi)
             ELSE IF hi > n THEN n ELSE hi
    IN SubSeq(str, a + 1, b)

\* lines 726-734: the sizes of the mass grid and of the redshift grid
logMsize(pf) == (pf.halo_logMmax - pf.halo_logMmin) \div pf.halo_dlogM

zsize(pf) == (pf.halo_zmax - pf.halo_zmin) \div pf.halo_dz + 1

\* lines 697-741
tab_prefix_ps(pf, with_size) ==
    IF ~with_size THEN "NotImplementedError"
    ELSE IF (pf.halo_logMmax - pf.halo_logMmin) % pf.halo_dlogM # 0
         THEN "AssertionError"
    ELSE IF (pf.halo_zmax - pf.halo_zmin) % pf.halo_dz # 0
         THEN "AssertionError"
    ELSE "halo_ps_" \o pf.halo_mf
         \o "_logM_" \o ToString(logMsize(pf))
         \o "_" \o FmtI(pf.halo_logMmin) \o "-" \o FmtI(pf.halo_logMmax)
         \o "_z_" \o ToString(zsize(pf))
         \o "_" \o FmtI(pf.halo_zmin) \o "-" \o FmtI(pf.halo_zmax)
         \o "_lnR_" \o Fmt1f(pf.halo_lnR_min) \o "-" \o Fmt1f(pf.halo_lnR_max)
         \o "_dlnR_" \o Fmt3f(pf.halo_dlnR)
         \o "_lnk_" \o Fmt1f(pf.halo_lnk_min) \o "-" \o Fmt1f(pf.halo_lnk_max)
         \o "_dlnk_" \o Fmt3f(pf.halo_dlnk)

\* nothing is taken out of the full prefix
tab_prefix_ps_check_NoCut(pf, with_size) == tab_prefix_ps(pf, with_size)

\* lines 743-756
tab_prefix_ps_check(pf, with_size) ==
    LET prefix == tab_prefix_ps(pf, with_size)
        iz == Find(prefix, "_z_")
        iR == Find(prefix, "_lnR_")
    IN IF IsError(prefix) THEN prefix
       ELSE PySlice(prefix, 0, iz) \o PySlice(prefix, iR, Len(prefix))

\* str(rank).zfill(3)
ZFill3(r) == (IF r < 10 THEN "00" ELSE IF r < 100 THEN "0" ELSE "") \o ToString(r)

\* lines 794-795: the name of the checkpoint file of rank r
ckpt_name(pf, r) ==
    LET pref == tab_prefix_ps_check(pf, TRUE)
    IN IF IsError(pref) THEN pref
       ELSE "tmp/" \o pref \o "." \o ZFill3(r) \o ".pkl"

\* line 964: the default name of the table file
table_name(pf, format) ==
    LET prefix == tab_prefix_ps(pf, TRUE)
    IN IF IsError(prefix) THEN prefix ELSE "./" \o prefix \o "." \o format

\* the parameter files tried: (min, max, step) of the mass grid, of the
\* redshift grid (the last one has a step that does not divide the range)
\* and of the R grid, with the k grid fixed
MGrids == {<<8000, 14000, 1000>>, <<8500, 14500, 1000>>}

ZGrids == {<<5000, 10000, 1000>>, <<5000, 10000, 500>>, <<6000, 30000, 2000>>,
           <<5000, 10000, 2000>>}

RGrids == {<<0 - 9000, 9000, 50>>, <<0 - 3000, 1000, 50>>}

Configs ==
    {[halo_mf |-> mf, halo_profile |-> pr, halo_cmr |-> cm,
      halo_logMmin |-> M[1], halo_logMmax |-> M[2], halo_dlogM |-> M[3],
      halo_zmin |-> Z[1], halo_zmax |-> Z[2], halo_dz |-> Z[3],
      halo_lnR_min |-> R[1], halo_lnR_max |-> R[2], halo_dlnR |-> R[3],
      halo_lnk_min |-> 0 - 9000, halo_lnk_max |-> 11000, halo_dlnk |-> 1] :
        mf \in {"ST", "PS"}, pr \in {"nfw", "isl"}, cm \in {"duffy", "zehavi"},
        M \in MGrids, Z \in ZGrids, R \in RGrids}

\* two HaloModel instances, one per parameter file
InitPrefix ==
    /\ NoRun
    /\ call \in [op : {"tab_prefix_ps"}, pf1 : Configs, pf2 : Configs]
    /\ result = [status |-> "not called"]

\* both instances name their table file and the checkpoint file of rank r
ApplyPrefix(r) ==
    /\ result.status = "not called"
    /\ result' = [status |-> "returned",
                  rank |-> r,
                  full1 |-> tab_prefix_ps(call.pf1, TRUE),
                  full2 |-> tab_prefix_ps(call.pf2, TRUE),
                  check1 |-> tab_prefix_ps_check(call.pf1, TRUE),
                  check2 |-> tab_prefix_ps_check(call.pf2, TRUE),
                  table1 |-> table_name(call.pf1, "hdf5"),
                  table2 |-> table_name(call.pf2, "hdf5"),
                  ckpt1 |-> ckpt_name(call.pf1, r),
                  ckpt2 |-> ckpt_name(call.pf2, r)]
    /\ UNCHANGED <<call, run_vars>>

NextPrefix == \E r \in Ranks : ApplyPrefix(r)

SpecPrefix == InitPrefix /\ [][NextPrefix]_vars

\* the redshift-range component of the full prefix
ZPart(pf) ==
    "_z_" \o ToString(zsize(pf)) \o "_" \o FmtI(pf.halo_zmin) \o "-" \o FmtI(pf.halo_zmax)

ZFields == {"halo_zmin", "halo_zmax", "halo_dz"}

DiffOnlyZ(a, b) == \A f \in (DOMAIN a) \ ZFields : a[f] = b[f]

\* C18: two parameter files that differ only in halo_zmin, halo_zmax,
\* halo_dz get the same checkpoint prefix, and the checkpoint prefix is
\* the full prefix with its redshift-range component taken out, every
\* other component unchanged.
C18_CheckOmitsZRange ==
    result.status = "returned" =>
        /\ (/\ DiffOnlyZ(call.pf1, call.pf2)
            /\ ~IsError(result.full1) /\ ~IsError(result.full2)) =>
               result.check1 = result.check2
        /\ ~IsError(result.full1) =>
              LET full == result.full1
                  zp == ZPart(call.pf1)
              IN \E i \in 0..(Len(full) - Len(zp)) :
                    /\ SubSeq(full, i + 1, i + Len(zp)) = zp
                    /\ result.check1 = SubSeq(full, 1, i)
                                       \o SubSeq(full, i + Len(zp) + 1, Len(full))

C18_Witness ==
    /\ result.status = "returned"
    /\ DiffOnlyZ(call.pf1, call.pf2)
    /\ ~IsError(result.full1) /\ ~IsError(result.full2)
    /\ result.full1 # result.full2
    /\ result.check1 = result.check2

\* C19: two parameter files that differ in halo_profile or in halo_cmr
\* never get the same table file name or the same checkpoint file name.
C19_NameEncodesProfile ==
    (/\ result.status = "returned"
     /\ ~IsError(result.full1) /\ ~IsError(result.full2)
     /\ \/ call.pf1.halo_profile # call.pf2.halo_profile
        \/ call.pf1.halo_cmr # call.pf2.halo_cmr) =>
        /\ result.full1 # result.full2
        /\ result.table1 # result.table2
        /\ result.ckpt1 # result.ckpt2

\* ---- table files: _load_ps, generate_ps / _write_ps ----

\* suffixes of file names and values of the argument format tried
Suffixes == {"hdf5", "h5", "pkl", "txt"}

\* the parameter file of the instance that writes and loads
IOPf == CHOOSE pf \in Configs :
            /\ pf.halo_mf = "ST" /\ pf.halo_profile = "nfw" /\ pf.halo_cmr = "duffy"
            /\ pf.halo_logMmin = 8000 /\ pf.halo_dz = 1000 /\ pf.halo_lnR_min < 0 - 3000

\* lines 628-629 and 964, with destination the directory _load_ps reads
halos_fn(suffix) == "input/halos/" \o tab_prefix_ps(IOPf, TRUE) \o "." \o suffix

FileNames == {halos_fn(x) : x \in Suffixes}

\* re.search('.' + lit, str): lit somewhere in str after at least one
\* character (the unescaped dot matches any character)
ReSearchDot(lit, str) ==
    \E i \in 2..(Len(str) - Len(lit) + 1) : SubSeq(str, i, i + Len(lit) - 1) = lit

\* the attributes tab_z, tab_R, tab_k, tab_ps_mm, tab_cf_mm of an instance
\* after TabulatePS, and of one whose tables are still np.zeros
Instances ==
    {[tab_z |-> tab_z, tab_R |-> <<1, 2>>, tab_k |-> <<3, 4, 5>>,
      tab_ps_mm |-> [n \in Rows |-> get_ps_mm(tab_z[n])],
      tab_cf_mm |-> [n \in Rows |-> get_cf_mm(tab_z[n])]],
     [tab_z |-> tab_z, tab_R |-> <<1, 2>>, tab_k |-> <<3, 4, 5>>,
      tab_ps_mm |-> Zeros, tab_cf_mm |-> Zeros]}

NoTables == [tab_z |-> <<>>, tab_R |-> <<>>, tab_k |-> <<>>,
             tab_ps_mm |-> <<>>, tab_cf_mm |-> <<>>]

Absent == [exists |-> FALSE, layout |-> "none", objs |-> <<>>, closed |-> TRUE]

\* f[name] of an HDF5 file: the data of the dataset of that name
Dataset(objs, name) == objs[CHOOSE n \in 1..Len(objs) : objs[n][1] = name][2]

\* lines 984-1019: self._write_ps(fn, clobber, format)
_write_ps(self, disk, fn, clobber_, format) ==
    IF disk[fn].exists /\ ~clobber_
    THEN [disk |-> disk, raised |-> "IOError: File exists", wrote |-> FALSE]
    ELSE IF format = "hdf5"
    THEN [disk |-> [disk EXCEPT ![fn] =
                      [exists |-> TRUE, layout |-> "hdf5", closed |-> TRUE,
                       objs |-> << <<"tab_z_ps", self.tab_z>>,
                                   <<"tab_R", self.tab_R>>,
                                   <<"tab_k", self.tab_k>>,
                                   <<"tab_ps_mm", self.tab_ps_mm>>,
                                   <<"tab_cf_mm", self.tab_cf_mm>> >>]],
          raised |-> "none", wrote |-> TRUE]
    ELSE \* line 1015: dict(('hmf-version', hmf_v)) raises, f stays open
         [disk |-> [disk EXCEPT ![fn] =
                      [exists |-> TRUE, layout |-> "pickle", closed |-> FALSE,
                       objs |-> <<self.tab_z, self.tab_R, self.tab_k,
                                  self.tab_ps_mm, self.tab_cf_mm>>]],
          raised |-> "ValueError", wrote |-> TRUE]

\* lines 613-648: self._load_ps(suffix); linear is pf['halo_ps_linear']
_load_ps(self, disk, suffix, linear) ==
    LET fn == halos_fn(suffix)
        f == disk[fn]
    IN IF linear
       THEN [got |-> [self EXCEPT !.tab_ps_mm = [n \in Rows |-> 1],
                                  !.tab_cf_mm = [n \in Rows |-> 1]],
             raised |-> "none"]
       ELSE IF ReSearchDot("hdf5", fn) \/ ReSearchDot("h5", fn)
       THEN IF ~f.exists \/ f.layout # "hdf5"
            THEN [got |-> NoTables, raised |-> "OSError"]
            ELSE [got |-> [tab_z |-> Dataset(f.objs, "tab_z_ps"),
                           tab_R |-> Dataset(f.objs, "tab_R"),
                           tab_k |-> Dataset(f.objs, "tab_k"),
                           tab_ps_mm |-> Dataset(f.objs, "tab_ps_mm"),
                           tab_cf_mm |-> Dataset(f.objs, "tab_cf_mm")],
                  raised |-> "none"]
       ELSE IF ReSearchDot("pkl", fn)
       THEN IF ~f.exists THEN [got |-> NoTables, raised |-> "FileNotFoundError"]
            ELSE IF f.layout # "pickle"
            THEN [got |-> NoTables, raised |-> "UnpicklingError"]
            ELSE IF Len(f.objs) < 5 THEN [got |-> NoTables, raised |-> "EOFError"]
            ELSE [got |-> [tab_z |-> f.objs[1], tab_R |-> f.objs[2],
                           tab_k |-> f.objs[3], tab_ps_mm |-> f.objs[4],
                           tab_cf_mm |-> f.objs[5]],
                  raised |-> "none"]
       ELSE [got |-> NoTables, raised |-> "IOError: Unrecognized format"]

\* an instance with its tables, and no table file on disk
InitIO ==
    /\ NoRun
    /\ call = [op |-> "new", fn |-> "None", format |-> "hdf5", clobber |-> TRUE,
               suffix |-> "hdf5", linear |-> FALSE]
    /\ \E self \in Instances :
          result = [self |-> self, disk |-> [fn \in FileNames |-> Absent],
                    raised |-> "none", wrote |-> FALSE, got |-> NoTables]

\* generate_ps lines 959-974 and 982 on rank 0, the tables being those of
\* the instance: the name is made up from format unless fn is given, and
\* the file is written by _write_ps
CallWritePS(fn_, format, clobber_) ==
    /\ LET fn == IF fn_ = "None" THEN halos_fn(format) ELSE fn_
           w == _write_ps(result.self, result.disk, fn, clobber_, format)
       IN /\ call' = [op |-> "_write_ps", fn |-> fn, format |-> format,
                      clobber |-> clobber_, suffix |-> "hdf5", linear |-> FALSE]
          /\ result' = [result EXCEPT !.disk = w.disk, !.raised = w.raised,
                                      !.wrote = w.wrote, !.got = NoTables]
    /\ UNCHANGED run_vars

\* a new instance of the same parameter file loads the table
CallLoadPS(suffix, linear) ==
    /\ LET l == _load_ps(result.self, result.disk, suffix, linear)
       IN /\ call' = [op |-> "_load_ps", fn |-> halos_fn(suffix), format |-> "hdf5",
                      clobber |-> TRUE, suffix |-> suffix, linear |-> linear]
          /\ result' = [result EXCEPT !.raised = l.raised, !.wrote = FALSE,
                                      !.got = l.got]
    /\ UNCHANGED run_vars

NextIO ==
    \/ \E fn_ \in {"None"} \cup FileNames, format \in Suffixes, cl \in BOOLEAN :
          CallWritePS(fn_, format, cl)
    \/ \E suffix \in Suffixes, linear \in BOOLEAN : CallLoadPS(suffix, linear)

SpecIO == InitIO /\ [][NextIO]_vars

Recognized == {"hdf5", "h5", "pkl"}

\* C16: _load_ps with a suffix, and _write_ps with a format, that is none
\* of hdf5, h5, pkl raises the format error; no table is loaded and no
\* file is written.
C16_UnknownFormatFails ==
    /\ (call.op = "_load_ps" /\ call.suffix \notin Recognized) =>
          /\ result.raised = "IOError: Unrecognized format"
          /\ result.got = NoTables
    /\ (call.op = "_write_ps" /\ call.format \notin Recognized) =>
          /\ result.raised = "IOError: Unrecognized format"
          /\ ~result.wrote

\* C17: a write in format pkl that is not refused because the file exists
\* returns without error and leaves six objects in the file, the tables
\* z, R, k, ps_mm, cf_mm first; loading the file gives these five back.
C17_PklRoundTrip ==
    /\ (/\ call.op = "_write_ps" /\ call.format = "pkl"
        /\ result.raised # "IOError: File exists") =>
          /\ result.raised = "none"
          /\ result.disk[call.fn].closed
          /\ Len(result.disk[call.fn].objs) = 6
          /\ SubSeq(result.disk[call.fn].objs, 1, 5) =
                <<result.self.tab_z, result.self.tab_R, result.self.tab_k,
                  result.self.tab_ps_mm, result.self.tab_cf_mm>>
    /\ (/\ call.op = "_load_ps" /\ call.suffix = "pkl" /\ ~call.linear
        /\ result.disk[call.fn].layout = "pickle") =>
          /\ result.raised = "none"
          /\ result.got = result.self

\* the suffix of a file name of the model
SuffixOf(fn) == CHOOSE x \in Suffixes : fn = halos_fn(x)

\* the layout in which _load_ps reads a file of a suffix
LayoutOf(suffix) == IF suffix \in {"hdf5", "h5"} THEN "hdf5" ELSE "pickle"

\* C28: after generate_ps has written to a given file name that does not
\* contain the format argument (line 966), the file has the layout of its
\* suffix, and loading it by that suffix gives the tables back.
C28_SuffixDecidesFormat ==
    (/\ call.op = "_write_ps" /\ result.wrote
     /\ Find(call.fn, call.format) < 0
     /\ SuffixOf(call.fn) \in Recognized) =>
        /\ result.disk[call.fn].layout = LayoutOf(SuffixOf(call.fn))
        /\ _load_ps(NoTables, result.disk, SuffixOf(call.fn), FALSE).raised = "none"
        /\ _load_ps(NoTables, result.disk, SuffixOf(call.fn), FALSE).got = result.self

\* ---- the power spectrum at one redshift and one wavenumber ----
\* Redshifts, tolerances, occupation fractions and spectra are fixed-point
\* in thousandths (focc = 1 is 1000, ztol = 1e-3 is 1); None is <<>>; k is
\* a position in tab_k, so nothing is interpolated.  A call returns
\* [err, val]: the exception it raised ("none" if it returned) and its
\* value.  get_ps_mm(z) above is the whole row get_ps_mm(z, self.tab_k) as
\* one opaque number; get_ps_mm_zk here is the method itself.

Returned(v) == [err |-> "none", val |-> v]

Raised(e) == [err |-> e, val |-> 0]

Abs(x) == IF x >= 0 THEN x ELSE 0 - x

\* product of two fixed-point numbers
FixMul(a, b) == a * (b \div 1000) + (a * (b % 1000)) \div 1000

\* self.tab_M: two halo masses, 2 apart in ln M (rho_bar is 1)
tab_M == <<1, 7>>

\* np.trapz(y, x=np.log(self.tab_M)) on that grid
Trapz(y) == y[1] + y[2]

\* self.tab_z in thousandths
tab_z_ps == [n \in Rows |-> 1000 * tab_z[n]]

tab_dndlnm(iz) == [iM \in 1..2 |-> 4 * (1 + ((iz + iM) % 2))]

tab_bias(iz) == [iM \in 1..2 |-> 1 + ((iz * iM) % 2)]

tab_fcoll(iz) == [iM \in 1..2 |-> 1 + (iM % 2)]

tab_ps_lin(iz, k) == 1 + ((iz + k) % 3)

\* self.get_u_nfw(z, M, k), the default profile
get_u_nfw(iz, iM, k) == 1 + ((iz + iM + k) % 2)

\* np.argmin(np.abs(x - tab)): the first position of the smallest distance
ArgMin(x, tab) ==
    CHOOSE n \in 1..Len(tab) :
        /\ \A m \in 1..Len(tab) : Abs(x - tab[n]) <= Abs(x - tab[m])
        /\ \A m \in 1..(n - 1) : Abs(x - tab[m]) > Abs(x - tab[n])

\* lines 376-396: the index of the redshift, or ValueError
_prep_for_ps(z, k, prof1, prof2, ztol) ==
    LET iz == ArgMin(z, tab_z_ps)
    IN IF Abs(tab_z_ps[iz] - z) > ztol THEN [err |-> "ValueError", iz |-> iz]
       ELSE [err |-> "none", iz |-> iz]

\* lines 287-374: [err, v1, v2], the pair the method returns
_integrate_over_prof(k, iz, prof1, prof2, lum1, lum2, mmin1, mmin2, focc1, focc2, term) ==
    LET p1 == [iM \in 1..2 |-> Abs(get_u_nfw(iz, iM, k))]
        p2 == [iM \in 1..2 |-> Abs(get_u_nfw(iz, iM, k))]
        bias == tab_bias(iz)
        dndlnm == tab_dndlnm(iz)
        small == 1000 - 1000 * Trapz([iM \in 1..2 |-> dndlnm[iM] * tab_M[iM] * bias[iM]])
        corr1 == IF mmin1 = <<>> /\ lum1 = <<>> THEN small ELSE 0
        fcoll1 == IF mmin1 = <<>> \/ lum1 # <<>> THEN 1
                  ELSE tab_fcoll(iz)[ArgMin(mmin1[1], tab_M)]
        corr2 == IF mmin2 = <<>> /\ lum2 = <<>> THEN small ELSE 0
        fcoll2 == 1
        weight1 == IF lum1 = <<>> THEN tab_M ELSE lum1
        norm1 == IF lum1 = <<>> THEN fcoll1 ELSE 1
        weight2 == IF lum2 = <<>> THEN tab_M ELSE lum2
        norm2 == IF lum2 = <<>> THEN fcoll2 ELSE 1
    IN IF mmin2 # <<>> /\ lum2 = <<>>
       THEN \* line 331 reads z and Mmin_2, names that do not exist
            [err |-> "NameError", v1 |-> 0, v2 |-> 0]
       ELSE IF term = 1
       THEN [err |-> "none",
             v1 |-> Trapz([iM \in 1..2 |->
                       ((dndlnm[iM] * focc1 * weight1[iM] * weight2[iM]
                         * p1[iM] * p2[iM]) \div norm1) \div norm2]),
             v2 |-> 0]
       ELSE [err |-> "none",
             v1 |-> Trapz([iM \in 1..2 |->
                       (dndlnm[iM] * focc1 * weight1[iM] * p1[iM] * bias[iM])
                       \div norm1]) + corr1,
             v2 |-> Trapz([iM \in 1..2 |->
                       (dndlnm[iM] * focc2 * weight2[iM] * p2[iM] * bias[iM])
                       \div norm2]) + corr2]

\* the integrand carries the profile at k, as the 1-halo term does
get_ps_shot_KDep(z, k, lum1, lum2, mmin1, mmin2, focc1, focc2, ztol) ==
    LET prep == _prep_for_ps(z, k, <<>>, <<>>, ztol)
        dndlnm == tab_dndlnm(prep.iz)
    IN IF prep.err # "none" THEN Raised(prep.err)
       ELSE IF lum1 = <<>> \/ lum2 = <<>> THEN Raised("TypeError")
       ELSE Returned(Trapz([iM \in 1..2 |->
                dndlnm[iM] * focc1 * lum1[iM] * lum2[iM]
                * get_u_nfw(prep.iz, iM, k) * get_u_nfw(prep.iz, iM, k)]))

\* lines 450-462; a luminosity left at None cannot be multiplied
get_ps_shot(z, k, lum1, lum2, mmin1, mmin2, focc1, focc2, ztol) ==
    LET prep == _prep_for_ps(z, k, <<>>, <<>>, ztol)
        dndlnm == tab_dndlnm(prep.iz)
    IN IF prep.err # "none" THEN Raised(prep.err)
       ELSE IF lum1 = <<>> \/ lum2 = <<>> THEN Raised("TypeError")
       ELSE Returned(Trapz([iM \in 1..2 |->
                dndlnm[iM] * focc1 * lum1[iM] * lum2[iM]]))

\* lines 415-426
get_ps_1h(z, k, prof1, prof2, lum1, lum2, mmin1, mmin2, focc1, focc2, ztol) ==
    LET prep == _prep_for_ps(z, k, prof1, prof2, ztol)
        integ == _integrate_over_prof(k, prep.iz, prof1, prof2, lum1, lum2,
                                      mmin1, mmin2, focc1, focc2, 1)
    IN IF prep.err # "none" THEN Raised(prep.err)
       ELSE IF integ.err # "none" THEN Raised(integ.err)
       ELSE Returned(integ.v1)

\* lines 428-448; linear is pf['halo_ps_linear']
get_ps_2h(linear, z, k, prof1, prof2, lum1, lum2, mmin1, mmin2, focc1, focc2, ztol) ==
    LET prep == _prep_for_ps(z, k, prof1, prof2, ztol)
        ps_lin == tab_ps_lin(prep.iz, k)
        integ == _integrate_over_prof(k, prep.iz, prof1, prof2, lum1, lum2,
                                      mmin1, mmin2, focc1, focc2, 2)
    IN IF prep.err # "none" THEN Raised(prep.err)
       ELSE IF linear /\ lum1 = <<>> /\ lum2 = <<>> /\ mmin1 = <<>> /\ mmin2 = <<>>
       THEN Returned(1000 * ps_lin)
       ELSE IF integ.err # "none" THEN Raised(integ.err)
       ELSE Returned(FixMul(integ.v1, integ.v2) * ps_lin)

\* lines 464-477: the ninth positional argument of get_ps_1h and of
\* get_ps_2h is focc1, and that is where ztol is passed; focc2 and ztol
\* of the callee keep their defaults 1 and 1e-3
get_ps_mm_zk(linear, z, k, prof1, prof2, lum1, lum2, mmin1, mmin2, ztol) ==
    LET ps_1h == IF linear THEN Returned(0)
                 ELSE get_ps_1h(z, k, prof1, prof2, lum1, lum2, mmin1, mmin2,
                                ztol, 1000, 1)
        ps_2h == get_ps_2h(linear, z, k, prof1, prof2, lum1, lum2, mmin1, mmin2,
                           ztol, 1000, 1)
    IN IF ps_1h.err # "none" THEN ps_1h
       ELSE IF ps_2h.err # "none" THEN ps_2h
       ELSE Returned(ps_1h.val + ps_2h.val)

\* arguments tried: redshifts on the grid, 1e-3 and 2e-3 off it and half
\* way between two rows; tolerances 1e-3 (the default), 2e-3 and 1
ZArgs == {tab_z_ps[1], tab_z_ps[1] + 1, tab_z_ps[1] + 2, tab_z_ps[2],
          tab_z_ps[1] + 1000}

ZTols == {1, 2, 1000}

LumArgs == {<<>>, <<3, 1>>}

MminArgs == {<<>>, <<7>>}

InitPS ==
    /\ NoRun
    /\ call \in [op : {"get_ps_mm"}, linear : BOOLEAN, z : ZArgs, k : 1..2,
                 k2 : 1..2, lum1 : LumArgs, lum2 : LumArgs, mmin1 : MminArgs,
                 mmin2 : MminArgs, ztol : ZTols]
    /\ result = [status |-> "not called"]

\* get_ps_mm(z, k, None, None, lum1, lum2, mmin1, mmin2, ztol), and
\* get_ps_1h and get_ps_2h with the same arguments, ztol passed by name;
\* get_ps_shot with the same arguments at k and at a second wavenumber k2;
\* the pair of 2-halo integrals of _integrate_over_prof at the nearest row
ApplyPS ==
    /\ result.status = "not called"
    /\ result' =
          [status |-> "returned",
           mm |-> get_ps_mm_zk(call.linear, call.z, call.k, <<>>, <<>>, call.lum1,
                               call.lum2, call.mmin1, call.mmin2, call.ztol),
           h1 |-> get_ps_1h(call.z, call.k, <<>>, <<>>, call.lum1, call.lum2,
                            call.mmin1, call.mmin2, 1000, 1000, call.ztol),
           h2 |-> get_ps_2h(call.linear, call.z, call.k, <<>>, <<>>, call.lum1,
                            call.lum2, call.mmin1, call.mmin2, 1000, 1000, call.ztol),
           shot |-> get_ps_shot(call.z, call.k, call.lum1, call.lum2, call.mmin1,
                                call.mmin2, 1000, 1000, call.ztol),
           shot2 |-> get_ps_shot(call.z, call.k2, call.lum1, call.lum2, call.mmin1,
                                 call.mmin2, 1000, 1000, call.ztol),
           integ |-> _integrate_over_prof(call.k, ArgMin(call.z, tab_z_ps), <<>>,
                         <<>>, call.lum1, call.lum2, call.mmin1, call.mmin2,
                         1000, 1000, 2)]
    /\ UNCHANGED <<call, run_vars>>

NextPS == ApplyPS

SpecPS == InitPS /\ [][NextPS]_vars

\* python's ps_1h + ps_2h of two calls made in this order
PlusOf(a, b) == IF a.err # "none" THEN a ELSE IF b.err # "none" THEN b
                ELSE Returned(a.val + b.val)

\* C20: with halo_ps_linear off get_ps_mm returns what get_ps_1h plus
\* get_ps_2h return for the same arguments and focc1 = focc2 = 1; with
\* halo_ps_linear on it returns what get_ps_2h returns.
C20_SumOfTerms ==
    result.status = "returned" =>
        IF call.linear THEN result.mm = result.h2
        ELSE result.mm = PlusOf(result.h1, result.h2)

\* the row nearest the requested redshift, and whether it is further
\* from it than the tolerance the caller passed
NearestRow == ArgMin(call.z, tab_z_ps)

OutOfRange == Abs(tab_z_ps[NearestRow] - call.z) > call.ztol

\* C21: get_ps_1h, get_ps_2h, get_ps_shot and get_ps_mm raise the
\* out-of-range error exactly when the nearest tabulated redshift is
\* further from z than the ztol the caller passed.
C21_ZtolOfCaller ==
    result.status = "returned" =>
        \A r \in {result.h1, result.h2, result.shot, result.mm} :
            (r.err = "ValueError") <=> OutOfRange

\* C22: for the same redshift, luminosities and occupation, get_ps_shot
\* returns the same at two wavenumbers.
C22_ShotNoiseFlatInK ==
    result.status = "returned" => result.shot = result.shot2

C22_Witness ==
    /\ result.status = "returned"
    /\ call.k # call.k2
    /\ result.shot.err = "none" /\ result.shot.val > 0
    /\ result.shot2.err = "none"

\* C23: with halo_ps_linear on and the redshift in range, get_ps_2h with
\* no luminosity and no mass floor returns the linear spectrum at k of
\* the nearest row; with any of lum1, lum2, mmin1, mmin2 given it
\* returns the product of the two 2-halo integrals and that spectrum.
C23_LinearShortcut ==
    (result.status = "returned" /\ call.linear /\ ~OutOfRange) =>
        IF call.lum1 = <<>> /\ call.lum2 = <<>> /\ call.mmin1 = <<>> /\ call.mmin2 = <<>>
        THEN result.h2 = Returned(1000 * tab_ps_lin(NearestRow, call.k))
        ELSE /\ result.h2.err = "none"
             /\ result.h2.val = FixMul(result.integ.v1, result.integ.v2)
                                * tab_ps_lin(NearestRow, call.k)

\* the 2-halo integral of one side with a mass floor and no luminosity:
\* normalized by fcoll at the tabulated mass nearest the floor, no
\* small-halo correction
FloorIntegral(mmin) ==
    Trapz([iM \in 1..2 |->
        (tab_dndlnm(NearestRow)[iM] * 1000 * tab_M[iM]
         * get_u_nfw(NearestRow, iM, call.k) * tab_bias(NearestRow)[iM])
        \div tab_fcoll(NearestRow)[ArgMin(mmin[1], tab_M)]])

\* C24: with a mass floor and no luminosity on a side, the integrator
\* returns for that side the integral normalized by the collapsed
\* fraction at the nearest tabulated mass, without the small-halo
\* correction, for side 2 as for side 1.
C24_MassFloorEitherSide ==
    result.status = "returned" =>
        /\ (call.mmin1 # <<>> /\ call.lum1 = <<>>) =>
              /\ result.integ.err = "none"
              /\ result.integ.v1 = FloorIntegral(call.mmin1)
        /\ (call.mmin2 # <<>> /\ call.lum2 = <<>>) =>
              /\ result.integ.err = "none"
              /\ result.integ.v2 = FloorIntegral(call.mmin2)

(***************************************************************************)
(* The concentration-mass relation (lines 36-69).  Redshift and halo mass  *)
(* are carried as ln(1 + z) and ln(Mh / 2e12) in thousandths, and the      *)
(* concentration as ln(c) in thousandths, so that the power law of         *)
(* Duffy et al. is integer arithmetic.                                     *)
(***************************************************************************)

\* lines 58-65: c = 6.71 * (Mh / 2e12) ** -0.091 * (1 + z) ** -0.44
_get_cmr_duffy(z, Mh) ==
    Returned(1904 - ((91 * Mh) \div 1000) - ((440 * z) \div 1000))

\* lines 67-69: the expression reads m, which no scope defines
_get_cmr_zehavi(z, Mh) == Raised("NameError")

\* lines 36-56; NotImplemented is not an exception class, so calling it
\* in the raise statement is itself a TypeError
get_concentration(halo_cmr, z, Mh) ==
    IF halo_cmr = "duffy" THEN _get_cmr_duffy(z, Mh)
    ELSE IF halo_cmr = "zehavi" THEN _get_cmr_zehavi(z, Mh)
    ELSE Raised("TypeError")

CmrNames == {"duffy", "zehavi", "bullock"}

\* z = 0 .. 5
CmrZArgs == {0, 693, 1099, 1386, 1609, 1792}

\* Mh = 2e10 .. 2e15
CmrMhArgs == {-4605, -2303, 0, 2303, 4605, 6908}

InitCMR ==
    /\ NoRun
    /\ call \in [op : {"get_concentration"}, halo_cmr : CmrNames,
                 z : CmrZArgs, Mh : CmrMhArgs]
    /\ result = [status |-> "not called"]

ApplyCMR ==
    /\ result.status = "not called"
    /\ result' = [status |-> "returned",
                  c |-> get_concentration(call.halo_cmr, call.z, call.Mh)]
    /\ UNCHANGED <<call, run_vars>>

NextCMR == ApplyCMR

SpecCMR == InitCMR /\ [][NextCMR]_vars

\* C25: get_concentration returns a concentration for duffy and for
\* zehavi at every redshift and mass, and fails only for another name.
C25_RecognizedNamesReturn ==
    result.status = "returned" =>
        (call.halo_cmr \in {"duffy", "zehavi"} <=> result.c.err = "none")

(***************************************************************************)
(* The correlation function at one redshift (lines 479-533).  Redshifts    *)
(* and tolerances are in thousandths as above.  np.interp and the two      *)
(* transforms of util.Math are kept as unevaluated terms: what matters     *)
(* here is which path returns, and in what shape.                          *)
(***************************************************************************)

\* self.tab_R, and row iz of self.tab_cf_mm
tab_R == <<1, 2>>

tab_cf(iz) == [iR \in 1..2 |-> 40 * iz + iR]

\* np.allclose(a, b) for arrays of one length: rtol 1e-5, atol 1e-8
AllClose(a, b) ==
    \A i \in 1..Len(a) : Abs(a[i] - b[i]) * 100000 <= Abs(b[i])

\* np.interp(x, xp, fp)
Interp(x, xp, fp) == [op |-> "interp", x |-> x, xp |-> xp, fp |-> fp]

\* get_cf_from_ps_tab(k, Pofk): the pair (R, cf) on the transform's grid
get_cf_from_ps_tab(k, Pofk) ==
    [R |-> [op |-> "mcfit.R", k |-> k],
     cf |-> [op |-> "mcfit.cf", k |-> k, ps |-> Pofk]]

\* get_cf_from_ps_func(R, ps): the array cf at the given R
get_cf_from_ps_func(R, ps) == [op |-> "quad.cf", R |-> R, ps |-> ps]

\* what a call of get_cf_mm gives: the tuple (R, cf), one bare array, or
\* an exception
Pair(R, cf) == [err |-> "none", shape |-> "pair", R |-> R, cf |-> cf]

BareArray(a) == [err |-> "none", shape |-> "array", R |-> <<>>, cf |-> a]

RaisedCF(e) == [err |-> e, shape |-> "none", R |-> <<>>, cf |-> <<>>]

\* lines 516-533: the power spectrum is computed and transformed
get_cf_mm_compute(pf, z, R) ==
    LET Pofk == [k \in 1..2 |->
                   get_ps_mm_zk(pf.halo_ps_linear, z, k, <<>>, <<>>, <<>>, <<>>,
                                <<>>, <<>>, 1)]
        bad == {k \in 1..2 : Pofk[k].err # "none"}
        ps == [k \in 1..2 |-> Pofk[k].val]
    IN IF bad # {} THEN RaisedCF(Pofk[Min(bad)].err)
       ELSE IF pf.use_mcfit
       THEN LET t == get_cf_from_ps_tab(<<1, 2>>, ps)
            IN IF R # <<>> THEN Pair(R, Interp(R, t.R, t.cf))
               ELSE Pair(t.R, t.cf)
       ELSE LET R_ == IF R = <<>> THEN tab_R ELSE R
            IN Pair(R_, get_cf_from_ps_func(R_, ps))

\* lines 479-533: self.get_cf_mm(z, R, load, ztol)
get_cf_mm_zR(pf, z, R, load, ztol) ==
    LET iz == ArgMin(z, tab_z_ps)
    IN IF pf.halo_ps_load /\ load /\ ~pf.halo_ps_linear
       THEN IF ~(Abs(z - tab_z_ps[iz]) < ztol) THEN RaisedCF("AssertionError")
            ELSE IF R # <<>> /\ Len(R) = Len(tab_R)
            THEN IF AllClose(R, tab_R) THEN BareArray(tab_cf(iz))
                 ELSE BareArray(Interp(R, tab_R, tab_cf(iz)))
            ELSE get_cf_mm_compute(pf, z, R)
       ELSE get_cf_mm_compute(pf, z, R)

\* R omitted, the tabulated grid, other values of the same length, and
\* another length
RArgs == {<<>>, tab_R, <<1, 3>>, <<2>>}

CfZArgs == {tab_z_ps[1], tab_z_ps[1] + 5, tab_z_ps[2] + 10}

InitCF ==
    /\ NoRun
    /\ call \in [op : {"get_cf_mm"},
                 pf : [halo_ps_load : BOOLEAN, halo_ps_linear : BOOLEAN,
                       use_mcfit : BOOLEAN],
                 z : CfZArgs, R : RArgs, load : BOOLEAN]
    /\ result = [status |-> "not called"]

\* get_cf_mm(z, R, load) with ztol at its default 1e-2
ApplyCF ==
    /\ result.status = "not called"
    /\ result' = [status |-> "returned",
                  cf |-> get_cf_mm_zR(call.pf, call.z, call.R, call.load, 10)]
    /\ UNCHANGED <<call, run_vars>>

NextCF == ApplyCF

SpecCF == InitCF /\ [][NextCF]_vars

\* C27: whenever get_cf_mm returns, it returns the pair (R, cf): with the
\* table loaded and R the tabulated grid, with R of the tabulated length
\* but other values, with R omitted, and when the correlation function is
\* computed from the power spectrum.
C27_AlwaysAPair ==
    (result.status = "returned" /\ result.cf.err = "none") =>
        result.cf.shape = "pair"

====
